---- MODULE Spec2Model ----
(***************************************************************************)
(* State-machine model of the login service backend: the Express routers   *)
(* (account-router.js, users-router.js and the older users router), their  *)
(* authentication / authorization middleware, the AccountController and    *)
(* UsersController handlers, the Mongoose User model and the application   *)
(* error handler.                                                          *)
(*                                                                         *)
(* One request is in flight at a time (req); every middleware and the      *)
(* route's controller method is one step of the chain Express builds for   *)
(* the route.  A controller method that calls next(error) and does not     *)
(* return keeps running, exactly as in the source: every handler yields    *)
(* the whole list of its outcomes, and the caller sees the first one.      *)
(***************************************************************************)
EXTENDS Integers, Sequences, FiniteSets, TLC

VARIABLES
    users,      \* the User collection, in insertion order
    issued,     \* access tokens handed out in login responses
    mail,       \* mails delivered by transporter.sendMail: [to, token]
    pending,    \* user.save() promises started and not awaited
    now,        \* clock, in token-lifetime units
    env,        \* req.app.get('env')
    strictQuery,\* Mongoose's strictQuery option (set outside src/)
    refreshTokens, \* the RefreshToken collection: {token, accountId}
    minted,     \* how many refresh-token values have been generated
    req,        \* the request in flight
    res         \* the response the caller received for req

vars == <<users, issued, mail, pending, now, env, strictQuery, refreshTokens, minted, req, res>>

(***************************************************************************)
(* Bounds of the model.                                                    *)
(***************************************************************************)
MaxUsers == 2
MaxTime == 2
MaxTokens == 2
MaxPending == 1
MaxRefresh == 2
MaxPage == 3
MaxLimit == 2

(***************************************************************************)
(* Program constants.                                                      *)
(***************************************************************************)
MinPasswordLength == 10
MaxPasswordLength == 256
BcryptRounds == 10
ACCESS_TOKEN_LIFE == 1
PASSWORD_RESET_TOKEN_LIFE == 1
DuplicateKeyCode == 11000

(***************************************************************************)
(* Values.  A string is a TLA+ string; a username is a sequence of         *)
(* characters so that toLowerCase can be computed.  undefined is           *)
(* Undefined for strings and NoName for usernames.                         *)
(***************************************************************************)
Undefined == "undefined"
NoName == <<>>

Usernames == { <<"a", "l">>, <<"A", "l">>, <<"b", "o">> }
Passwords == { "correcthorse", "batterystaple", "short" }
Emails == { "al@example.org" }
\* an address that no registration gives
UnknownEmail == "eve@example.org"

LowerChar(c) ==
    CASE c = "A" -> "a"
      [] c = "B" -> "b"
      [] c = "L" -> "l"
      [] c = "O" -> "o"
      [] OTHER -> c

\* String.prototype.toLowerCase
toLowerCase(s) == [i \in 1..Len(s) |-> LowerChar(s[i])]

\* JavaScript's !v for a string field and for a username field
Falsy(v) == v = Undefined
FalsyName(u) == u = NoName

(***************************************************************************)
(* bcrypt.                                                                 *)
(***************************************************************************)
NoHash == [alg |-> "none", rounds |-> 0, of |-> Undefined]

\* bcrypt.hash(data, rounds)
bcryptHash(data, rounds) == [alg |-> "bcrypt", rounds |-> rounds, of |-> data]

\* bcrypt.compare(data, hash): rejects when either argument is missing
bcryptCompare(data, h) ==
    IF data = Undefined \/ h = NoHash THEN "throws"
    ELSE IF h.alg = "bcrypt" /\ h.of = data THEN "true"
    ELSE "false"

(***************************************************************************)
(* Error objects.  status 0: the error has no status property.             *)
(***************************************************************************)
NoCause == [status |-> 0, name |-> "none", code |-> 0, message |-> "none", stack |-> "none"]

StatusMessage(status) ==
    CASE status = 400 -> "Bad Request"
      [] status = 401 -> "Unauthorized"
      [] status = 403 -> "Forbidden"
      [] status = 404 -> "Not Found"
      [] status = 409 -> "Conflict"
      [] OTHER -> "Error"

\* new Error(message), thrown at `site`
NewError(name, code, message, site) ==
    [status |-> 0, name |-> name, code |-> code, message |-> message,
     stack |-> site, cause |-> NoCause]

\* createError(status), created at `site`
createError(status, site) ==
    [status |-> status, name |-> "HttpError", code |-> 0,
     message |-> StatusMessage(status), stack |-> site, cause |-> NoCause]

\* error.cause = err
WithCause(error, err) ==
    [error EXCEPT !.cause = [status |-> err.status, name |-> err.name, code |-> err.code,
                             message |-> err.message, stack |-> err.stack]]

(***************************************************************************)
(* Outcomes of a middleware or controller method, in the order they        *)
(* happen: next(error) calls and responses written to res.                 *)
(***************************************************************************)
NoBody == [type |-> "none"]
NoErr == createError(0, "none")

NextErr(error) == [t |-> "next", err |-> error, status |-> 0, body |-> NoBody]
Send(status, body) == [t |-> "send", err |-> NoErr, status |-> status, body |-> body]

NoRes == [status |-> 0, body |-> NoBody]

(***************************************************************************)
(* The User model (Mongoose schema, pre-save hook, statics).               *)
(***************************************************************************)
Null == [id |-> 0, username |-> NoName, password |-> NoHash]

\* schema validation of the password path: required, minLength, maxLength
PasswordValid(p) ==
    /\ p # Undefined
    /\ Len(p) >= MinPasswordLength
    /\ Len(p) <= MaxPasswordLength

\* schema validation of the username path: required
UsernameValid(u) == u # NoName

\* the unique index on username: byte-wise equality of the stored strings
DuplicateKey(us, u) == \E i \in 1..Len(us) : us[i].username = u

\* User.findOne({ username })
findOneByUsername(us, u) ==
    IF \E i \in 1..Len(us) : us[i].username = u
    THEN us[CHOOSE i \in 1..Len(us) : us[i].username = u]
    ELSE Null

\* User.findById(id): 0 is a string that is no ObjectId (CastError)
IsObjectId(id) == id >= 1
findById(us, id) == IF id \in 1..Len(us) THEN us[id] ELSE Null

\* schema.pre('save'): hashes whatever the password path holds
preSave(doc) == [doc EXCEPT !.password = bcryptHash(doc.password, BcryptRounds)]

\* save() against a collection whose username index is not unique
saveNewResult_noUniqueIndex(us, u, p) ==
    IF ~UsernameValid(u) \/ ~PasswordValid(p) THEN "ValidationError"
    ELSE "saved"

\* new User({...}).save(): "ValidationError", "duplicate" or "saved"
saveNewResult(us, u, p) ==
    IF ~UsernameValid(u) \/ ~PasswordValid(p) THEN "ValidationError"
    ELSE IF DuplicateKey(us, u) THEN "duplicate"
    ELSE "saved"

saveNew(us, u, p) ==
    Append(us, preSave([id |-> Len(us) + 1, username |-> u, password |-> p]))

\* schema.statics.authenticate
authenticate(us, username, password) ==
    LET user == findOneByUsername(us, username)
        cmp == bcryptCompare(password, user.password)
    IN  IF cmp = "throws"
        THEN [ok |-> FALSE, user |-> Null,
              err |-> NewError("Error", 0, "data and hash arguments required", "bcrypt.compare")]
        ELSE IF cmp = "false"
        THEN [ok |-> FALSE, user |-> Null,
              err |-> NewError("Error", 0, "Invalid credentials.", "authenticate")]
        ELSE [ok |-> TRUE, user |-> user, err |-> NoErr]

\* a toJSON transform that leaves the password in
toJSON_keepsPassword(doc) ==
    [type |-> "user", id |-> doc.id, username |-> doc.username, password |-> doc.password]

\* toJSON transform of a User document: _id, __v and password removed
toJSON(doc) == [type |-> "user", id |-> doc.id, username |-> doc.username]

(***************************************************************************)
(* jsonwebtoken and the keys of process.env.  A key pair is named by its   *)
(* token class; a token carries the pair that signed it.                   *)
(***************************************************************************)
NoToken == [key |-> "none", sub |-> 0, iat |-> 0, exp |-> 0]

\* process.env[name]: the key pair a key variable belongs to
ProcessEnv(name) ==
    CASE name = "ACCESS_TOKEN_SECRET" -> "access"
      [] name = "ACCESS_TOKEN_PUBLIC_KEY" -> "access"
      [] name = "ACCESS_TOKEN_PUB" -> "access"
      [] name = "PASSWORD_RESET_PRIVATE" -> "reset"
      [] name = "PASSWORD_RESET_PUBLIC" -> "reset"
      [] OTHER -> Undefined

\* jwt.sign(payload, privateKey, { algorithm: 'RS256', expiresIn })
jwtSign(sub, privateKey, t, expiresIn) ==
    [key |-> privateKey, sub |-> sub, iat |-> t, exp |-> t + expiresIn]

\* jwt.verify with ignoreExpiration: the exp claim is not checked
jwtVerify_ignoresExpiry(token, publicKey, t) ==
    IF token = NoToken THEN [ok |-> FALSE, sub |-> 0, why |-> "jwt must be provided"]
    ELSE IF token.key # publicKey THEN [ok |-> FALSE, sub |-> 0, why |-> "invalid signature"]
    ELSE [ok |-> TRUE, sub |-> token.sub, why |-> "verified"]

\* jwt.decode in place of jwt.verify: the signature is not checked
jwtVerify_decodesOnly(token, publicKey, t) ==
    IF token = NoToken THEN [ok |-> FALSE, sub |-> 0, why |-> "jwt must be provided"]
    ELSE IF t >= token.exp THEN [ok |-> FALSE, sub |-> 0, why |-> "jwt expired"]
    ELSE [ok |-> TRUE, sub |-> token.sub, why |-> "verified"]

\* jwt.verify(token, publicKey) at time t
jwtVerify(token, publicKey, t) ==
    IF token = NoToken THEN [ok |-> FALSE, sub |-> 0, why |-> "jwt must be provided"]
    ELSE IF token.key # publicKey THEN [ok |-> FALSE, sub |-> 0, why |-> "invalid signature"]
    ELSE IF t >= token.exp THEN [ok |-> FALSE, sub |-> 0, why |-> "jwt expired"]
    ELSE [ok |-> TRUE, sub |-> token.sub, why |-> "verified"]

(***************************************************************************)
(* Requests.                                                               *)
(***************************************************************************)
NoHeader == [scheme |-> "none", token |-> NoToken]
\* req.user / req.admin: a payload-derived identity has a sub, a loaded User
\* document has none (sub is undefined, modelled as -1)
NoIdentity == [kind |-> "none", sub |-> -1, doc |-> 0]
Jwt(sub) == [kind |-> "jwt", sub |-> sub, doc |-> 0]
Doc(id) == [kind |-> "doc", sub |-> -1, doc |-> id]

\* an id field that is undefined
NoId == -1

\* a refresh-token field that is undefined; the values are 1, 2, ...
NoValue == 0

EmptyBody ==
    [username |-> NoName, email |-> Undefined, password |-> Undefined,
     newPassword |-> Undefined, newPasswordConfirm |-> Undefined,
     company |-> Undefined, orgNo |-> Undefined, customer |-> NoId,
     refreshToken |-> NoValue]

\* req.query of a request that is no listing
NoQuery == [page |-> 0, limit |-> 0]

Idle ==
    [route |-> "none", pc |-> "idle", stage |-> 0, id |-> 0, header |-> NoHeader,
     user |-> NoIdentity, admin |-> NoIdentity, body |-> EmptyBody, query |-> NoQuery,
     trail |-> <<>>, outcomes |-> <<>>]

\* the owner-only routes with authorizeUser listed before authenticateJWT
Chain_authorizeFirst(route) ==
    CASE route = "POST /register" -> <<"register">>
      [] route = "POST /login" -> <<"login">>
      [] route = "PATCH /password/update" -> <<"authenticateJWT", "updatePassword">>
      [] route = "GET /user/:id" -> <<"loadUser", "authorizeUser", "authenticateJWT", "find">>
      [] route = "PATCH /password/:id" ->
            <<"loadUser", "authorizeUser", "authenticateJWT", "updatePassword">>
      [] OTHER -> <<>>

\* the middleware chain Express runs for a route, router.param callbacks first
Chain(route) ==
    CASE route = "POST /register" -> <<"register">>
      [] route = "POST /login" -> <<"login">>
      [] route = "POST /login (AccountController 2.3.1)" -> <<"loginVariant">>
      [] route = "POST /logout (AccountController 2.3.1)" -> <<"logout">>
      [] route = "POST /logout (AccountController 2.3.1, no RefreshToken)" -> <<"logoutVariant">>
      [] route = "PATCH /password/update" -> <<"authenticateJWT", "updatePassword">>
      [] route = "POST /password/restore" -> <<"sendRestoreEmail">>
      [] route = "PATCH /password/reset" -> <<"authenticatePasswordResetJWT", "resetPassword">>
      [] route = "GET /user/:id" -> <<"loadUser", "authenticateJWT", "authorizeUser", "find">>
      [] route = "PATCH /password/:id" ->
            <<"loadUser", "authenticateJWT", "authorizeUser", "updatePassword">>
      [] route = "POST /users/register" -> <<"usersAuthenticateJWT", "usersRegister">>
      [] route = "GET /users" -> <<"usersAuthenticateJWT", "getAll">>
      [] route = "PATCH /users/password/reset" ->
            <<"usersAuthenticateJWT", "usersResetPassword">>
      [] route = "GET /users/:id" -> <<"loadUser", "usersAuthenticateJWT", "find">>
      [] route = "GET /users/:id (users routes 1.0.0)" -> <<"loadUser", "authorizeJWT", "find">>
      [] OTHER -> <<>>

Routes ==
    { "POST /register", "POST /login", "PATCH /password/update", "POST /password/restore",
      "PATCH /password/reset", "GET /user/:id", "PATCH /password/:id",
      "POST /users/register", "GET /users", "PATCH /users/password/reset", "GET /users/:id",
      "GET /users/:id (users routes 1.0.0)", "POST /login (AccountController 2.3.1)",
      "POST /logout (AccountController 2.3.1)",
      "POST /logout (AccountController 2.3.1, no RefreshToken)" }

HasIdParam(route) == Len(Chain(route)) > 0 /\ Chain(route)[1] = "loadUser"

Controllers ==
    { "register", "login", "updatePassword", "sendRestoreEmail", "resetPassword", "find",
      "usersRegister", "usersResetPassword", "loginVariant", "logout", "logoutVariant",
      "getAll" }

\* the step of the chain that runs next
Stage ==
    IF req.pc = "run" /\ req.stage \in 1..Len(Chain(req.route))
    THEN Chain(req.route)[req.stage] ELSE "none"

\* :id values: 0 is no ObjectId, MaxUsers + 1 is an ObjectId of no account
ParamIds == 0..(MaxUsers + 1)

\* tokens a caller can hold: those the service handed out
Presentable == issued \cup { m.token : m \in mail }

\* tokens a caller can make: signed with a key that is not the service's
Forged == { [key |-> "attacker", sub |-> s, iat |-> now, exp |-> now + 1] : s \in 1..MaxUsers }

Headers ==
    { NoHeader, [scheme |-> "Basic", token |-> NoToken] }
    \cup { [scheme |-> "Bearer", token |-> t] : t \in Presentable \cup Forged \cup {NoToken} }

(***************************************************************************)
(* Controller methods.  Each yields the collections as it leaves them and  *)
(* the list of its outcomes.                                               *)
(***************************************************************************)
Result(us, iss, ml, pend, outs) ==
    [users |-> us, issued |-> iss, mail |-> ml, pending |-> pend,
     refreshTokens |-> refreshTokens, outcomes |-> outs]

Unchanged(outs) == Result(users, issued, mail, pending, outs)

TypeError(site) == NewError("TypeError", 0, "Cannot read properties of undefined", site)

\* AccountController.register
register(body) ==
    IF FalsyName(body.username) \/ Falsy(body.email) \/ Falsy(body.password)
    THEN Unchanged(<<NextErr(WithCause(createError(400, "register"),
                        NewError("ValidationError", 0, "Validation error", "register")))>>)
    ELSE LET saved == saveNewResult(users, body.username, body.password)
         IN  IF saved = "ValidationError"
             THEN Unchanged(<<NextErr(WithCause(createError(400, "register"),
                        NewError("ValidationError", 0, "User validation failed", "save")))>>)
             ELSE IF saved = "duplicate"
             THEN Unchanged(<<NextErr(WithCause(createError(409, "register"),
                        NewError("MongoServerError", DuplicateKeyCode, "E11000 duplicate key", "save")))>>)
             ELSE Result(saveNew(users, body.username, body.password), issued, mail, pending,
                         <<Send(201, [type |-> "created", id |-> Len(users) + 1])>>)

\* UsersController.register
usersRegister(body) ==
    IF Falsy(body.company) \/ Falsy(body.password) \/ Falsy(body.email) \/ Falsy(body.orgNo)
    THEN Unchanged(<<NextErr(WithCause(createError(400, "usersRegister"),
                        NewError("ValidationError", 0, "Validation error", "usersRegister")))>>)
    ELSE LET saved == saveNewResult(users, body.username, body.password)
         IN  IF saved = "ValidationError"
             THEN Unchanged(<<NextErr(WithCause(createError(400, "usersRegister"),
                        NewError("ValidationError", 0, "User validation failed", "save")))>>)
             ELSE IF saved = "duplicate"
             THEN Unchanged(<<NextErr(WithCause(createError(409, "usersRegister"),
                        NewError("MongoServerError", DuplicateKeyCode, "E11000 duplicate key", "save")))>>)
             ELSE Result(saveNew(users, body.username, body.password), issued, mail, pending,
                         <<Send(201, [type |-> "created", id |-> Len(users) + 1])>>)

\* login that answers Not Found when no account has the username
login_unknownIs404(body) ==
    LET early == IF FalsyName(body.username) \/ Falsy(body.password)
                 THEN <<NextErr(createError(400, "login"))>> ELSE <<>>
    IN  IF FalsyName(body.username)
        THEN Unchanged(early \o <<NextErr(WithCause(createError(401, "login"), TypeError("login")))>>)
        ELSE LET a == authenticate(users, toLowerCase(body.username), body.password)
                 accessToken == jwtSign(a.user.id, ProcessEnv("ACCESS_TOKEN_SECRET"), now,
                                        ACCESS_TOKEN_LIFE)
             IN  IF findOneByUsername(users, toLowerCase(body.username)) = Null
                 THEN Unchanged(early \o <<NextErr(WithCause(createError(404, "login"), a.err))>>)
                 ELSE IF ~a.ok
                 THEN Unchanged(early \o <<NextErr(WithCause(createError(401, "login"), a.err))>>)
                 ELSE Result(users, issued \cup {accessToken}, mail, pending,
                             early \o <<Send(200, [type |-> "login", access_token |-> accessToken])>>)

\* AccountController.login
login(body) ==
    LET early == IF FalsyName(body.username) \/ Falsy(body.password)
                 THEN <<NextErr(createError(400, "login"))>> ELSE <<>>
    IN  IF FalsyName(body.username)
        THEN Unchanged(early \o <<NextErr(WithCause(createError(401, "login"), TypeError("login")))>>)
        ELSE LET a == authenticate(users, toLowerCase(body.username), body.password)
                 accessToken == jwtSign(a.user.id, ProcessEnv("ACCESS_TOKEN_SECRET"), now,
                                        ACCESS_TOKEN_LIFE)
             IN  IF ~a.ok
                 THEN Unchanged(early \o <<NextErr(WithCause(createError(401, "login"), a.err))>>)
                 ELSE Result(users, issued \cup {accessToken}, mail, pending,
                             early \o <<Send(200, [type |-> "login", access_token |-> accessToken])>>)

\* AccountController.login, version 2.3.1: no check of the fields
loginVariant(body) ==
    IF FalsyName(body.username)
    THEN Unchanged(<<NextErr(WithCause(createError(401, "login"), TypeError("login")))>>)
    ELSE LET a == authenticate(users, toLowerCase(body.username), body.password)
             accessToken == jwtSign(a.user.id, ProcessEnv("ACCESS_TOKEN_SECRET"), now,
                                    ACCESS_TOKEN_LIFE)
         IN  IF ~a.ok
             THEN Unchanged(<<NextErr(WithCause(createError(401, "login"), a.err))>>)
             ELSE Result(users, issued \cup {accessToken}, mail, pending,
                         <<Send(200, [type |-> "login", access_token |-> accessToken])>>)

\* RefreshToken.findOneAndDelete({ token }): the collection without the record
findOneAndDelete(store, value) == { r \in store : r.token # value }

\* AccountController.logout, version 2.3.1 with the RefreshToken model
logout(body) ==
    IF body.refreshToken = NoValue
    THEN Unchanged(<<NextErr(createError(400, "logout"))>>)
    ELSE [Unchanged(<<Send(204, NoBody)>>)
            EXCEPT !.refreshTokens = findOneAndDelete(refreshTokens, body.refreshToken)]

\* AccountController.logout, version 2.3.1 without the RefreshToken model
logoutVariant(body) ==
    IF body.refreshToken = NoValue
    THEN Unchanged(<<NextErr(createError(400, "logout"))>>)
    ELSE Unchanged(<<Send(204, NoBody)>>)

\* AccountController.updatePassword
updatePassword(body) ==
    LET early ==
            IF FalsyName(body.username) \/ Falsy(body.password) \/ Falsy(body.newPassword)
               \/ Falsy(body.newPasswordConfirm)
            THEN <<NextErr(createError(400, "updatePassword"))>>
            ELSE IF body.newPassword # body.newPasswordConfirm
            THEN <<NextErr(createError(400, "updatePassword"))>>
            ELSE <<>>
    IN  IF FalsyName(body.username)
        THEN Unchanged(early \o <<NextErr(createError(400, "updatePassword catch"))>>)
        ELSE LET a == authenticate(users, toLowerCase(body.username), body.password)
             IN  IF ~a.ok
                 THEN Unchanged(early \o <<NextErr(createError(400, "updatePassword catch"))>>)
                 ELSE Result(users, issued, mail,
                             pending \cup {[id |-> a.user.id, password |-> body.newPassword]},
                             early \o <<Send(204, NoBody)>>)

\* the email a User document stores: the schema has no email path, and a
\* strict schema drops the email given to new User({...})
storedEmail(doc) == Undefined

\* User.findOne({ email }): the schema has no email path.  With strictQuery
\* the filter is stripped and the first document matches; without it the
\* filter reaches MongoDB, where undefined is sent as null and matches a
\* document that has no email, and any other value matches none.
findOneByEmail(us, email) ==
    IF Len(us) = 0 THEN Null
    ELSE IF strictQuery \/ email = Undefined THEN us[1]
    ELSE Null

\* AccountController.sendRestoreEmail
sendRestoreEmail(body) ==
    LET early == IF Falsy(body.email) THEN <<NextErr(createError(400, "sendRestoreEmail"))>>
                 ELSE <<>>
        user == findOneByEmail(users, body.email)
        restorePasswordToken == jwtSign(user.id, ProcessEnv("PASSWORD_RESET_PRIVATE"), now,
                                        PASSWORD_RESET_TOKEN_LIFE)
    IN  IF user = Null
        THEN Unchanged(early \o <<NextErr(createError(404, "sendRestoreEmail"))>>)
        ELSE IF body.email = Undefined
        THEN Unchanged(early \o <<NextErr(NewError("Error", 0, "No recipients defined", "sendMail"))>>)
        ELSE Result(users, issued, mail \cup {[to |-> body.email, token |-> restorePasswordToken]},
                    pending, early \o <<Send(204, NoBody)>>)

\* AccountController.resetPassword
resetPassword(body, identity) ==
    LET early == IF Falsy(body.newPassword) THEN <<NextErr(createError(400, "resetPassword"))>>
                 ELSE <<>>
        user == findById(users, identity.sub)
    IN  IF user = Null
        THEN Unchanged(early \o <<NextErr(createError(400, "resetPassword catch"))>>)
        ELSE Result(users, issued, mail,
                    pending \cup {[id |-> user.id, password |-> body.newPassword]},
                    early \o <<Send(204, NoBody)>>)

\* UsersController.resetPassword.  findById(undefined) finds nothing, an id
\* that is no ObjectId rejects with a CastError, and customer.password on null
\* throws a TypeError; both end in the catch block
usersResetPassword(body) ==
    LET early ==
            IF body.customer = NoId \/ Falsy(body.newPassword) \/ Falsy(body.newPasswordConfirm)
            THEN <<NextErr(createError(400, "usersResetPassword"))>>
            ELSE IF body.newPassword # body.newPasswordConfirm
            THEN <<NextErr(createError(400, "usersResetPassword"))>>
            ELSE <<>>
        customer == findById(users, body.customer)
    IN  IF body.customer # NoId /\ ~IsObjectId(body.customer)
        THEN Unchanged(early \o <<NextErr(createError(400, "usersResetPassword catch"))>>)
        ELSE IF customer = Null
        THEN Unchanged(early \o <<NextErr(createError(404, "usersResetPassword")),
                                  NextErr(createError(400, "usersResetPassword catch"))>>)
        ELSE Result(users, issued, mail,
                    pending \cup {[id |-> customer.id, password |-> body.newPassword]},
                    early \o <<Send(204, NoBody)>>)

\* AccountController.find / UsersController.find: res.json(req.user)
find(identity) ==
    IF identity.kind = "doc"
    THEN Unchanged(<<Send(200, toJSON(findById(users, identity.doc)))>>)
    ELSE IF identity.kind = "jwt"
    THEN Unchanged(<<Send(200, [type |-> "identity", sub |-> identity.sub])>>)
    ELSE Unchanged(<<Send(200, NoBody)>>)

\* User.find({ admin: false }): the schema has no admin path.  With
\* strictQuery the filter is stripped and every document matches; without it
\* the filter reaches MongoDB, where no document has an admin field equal to
\* false.
findNotAdmin(us) == IF strictQuery THEN us ELSE <<>>

\* Math.ceil(n / d) for n >= 0 and d > 0
Ceil(n, d) == (n + d - 1) \div d

\* a page reference of the listing that is absent
NoPage == [present |-> FALSE, page |-> 0, limit |-> 0]

\* the results object UsersController.getAll builds, for page >= 1 and limit >= 1
getAllResults(us, page, limit) ==
    LET startIndex == (page - 1) * limit
        endIndex == page * limit
        allUsers == findNotAdmin(us)
        last == IF startIndex + limit < Len(allUsers) THEN startIndex + limit
                ELSE Len(allUsers)
        found == SubSeq(allUsers, startIndex + 1, last)
    IN  [type |-> "list",
         users |-> [i \in 1..Len(found) |-> toJSON(found[i])],
         next |-> IF endIndex < Len(allUsers)
                  THEN [present |-> TRUE, page |-> page + 1, limit |-> limit]
                  ELSE NoPage,
         previous |-> IF startIndex < 0
                      THEN [present |-> TRUE, page |-> page - 1, limit |-> limit]
                      ELSE NoPage,
         pages |-> Ceil(Len(allUsers), limit)]

(***************************************************************************)
(* The application's error handler.                                        *)
(***************************************************************************)
NullCause == [status |-> 0, message |-> "null", stack |-> "null"]

\* an error handler that gives the detailed response in every mode
errorResponse_alwaysDetailed(err, mode) ==
    LET status == IF err.status = 0 THEN 500 ELSE err.status
        message ==
            CASE status = 500 -> "An unexpected condition was encountered."
              [] status = 400 ->
                    "The request cannot or will not be processed due to something that is perceived to be a client error (for example validation error)."
              [] status = 409 -> "The username is already registered."
              [] OTHER -> err.message
    IN  [status |-> status,
         body |-> [type |-> "error", status |-> status, message |-> message,
                   cause |-> IF err.cause = NoCause THEN NullCause
                             ELSE [status |-> err.cause.status,
                                   message |-> err.cause.message,
                                   stack |-> err.cause.stack],
                   stack |-> err.stack]]

\* app.use(function (err, req, res, next) {...})
errorResponse(err, mode) ==
    LET status == IF err.status = 0 THEN 500 ELSE err.status
        message ==
            CASE status = 500 -> "An unexpected condition was encountered."
              [] status = 400 ->
                    "The request cannot or will not be processed due to something that is perceived to be a client error (for example validation error)."
              [] status = 409 -> "The username is already registered."
              [] OTHER -> err.message
    IN  IF mode # "development"
        THEN [status |-> status,
              body |-> [type |-> "error", status |-> status, message |-> message]]
        ELSE [status |-> status,
              body |-> [type |-> "error", status |-> status, message |-> message,
                        cause |-> IF err.cause = NoCause THEN NullCause
                                  ELSE [status |-> err.cause.status,
                                        message |-> err.cause.message,
                                        stack |-> err.cause.stack],
                        stack |-> err.stack]]

(***************************************************************************)
(* Authentication and authorization middleware.                            *)
(***************************************************************************)
\* the try block shared by the bearer middlewares: split the header, check
\* the scheme, jwt.verify against the public key
bearer(header, publicKey) ==
    IF header = NoHeader
    THEN [ok |-> FALSE, sub |-> 0, err |-> TypeError("split")]
    ELSE IF header.scheme # "Bearer"
    THEN [ok |-> FALSE, sub |-> 0,
          err |-> NewError("Error", 0, "Invalid authentication scheme.", "scheme")]
    ELSE LET v == jwtVerify(header.token, publicKey, now)
         IN  IF v.ok THEN [ok |-> TRUE, sub |-> v.sub, err |-> NoErr]
             ELSE [ok |-> FALSE, sub |-> 0,
                   err |-> NewError("JsonWebTokenError", 0, v.why, "jwt.verify")]

\* err.message = 'Invalid access token'
Renamed(err) == [err EXCEPT !.message = "Invalid access token"]

Advance(r, name) == [r EXCEPT !.stage = @ + 1, !.trail = Append(@, name)]

Fail(r, name, error) ==
    [r EXCEPT !.pc = "error", !.trail = Append(@, name), !.outcomes = <<NextErr(error)>>]

\* process.env.process, read by authenticatePasswordResetJWT: no such variable
process_env_process == Undefined

(***************************************************************************)
(* Actions.                                                                *)
(***************************************************************************)
Init ==
    /\ users = <<>>
    /\ issued = {}
    /\ mail = {}
    /\ pending = {}
    /\ now = 0
    /\ env \in {"development", "production"}
    /\ strictQuery \in BOOLEAN
    /\ refreshTokens = {}
    /\ minted = 0
    /\ req = Idle
    /\ res = NoRes

\* a request arrives and Express selects the route's chain
Receive(routes) ==
    /\ req.pc \in {"idle", "done"}
    /\ \E route \in routes :
         \E id \in ParamIds :
            /\ (HasIdParam(route) \/ id = 0)
            /\ req' = [Idle EXCEPT !.route = route, !.pc = "run", !.stage = 1, !.id = id]
    /\ res' = NoRes
    /\ UNCHANGED <<users, issued, mail, pending, now, env, strictQuery, refreshTokens, minted>>

\* router.param('id'): AccountController.loadUser / UsersController.loadUser
loadUser ==
    /\ Stage = "loadUser"
    /\ req' = IF ~IsObjectId(req.id) \/ findById(users, req.id) = Null
              THEN Fail(req, "loadUser", createError(404, "loadUser"))
              ELSE Advance([req EXCEPT !.user = Doc(req.id)], "loadUser")
    /\ UNCHANGED <<users, issued, mail, pending, now, env, strictQuery, refreshTokens, minted, res>>

\* authenticateJWT of account-router.js
authenticateJWT ==
    /\ Stage = "authenticateJWT"
    /\ \E header \in Headers :
         LET a == bearer(header, ProcessEnv("ACCESS_TOKEN_PUBLIC_KEY"))
             r == [req EXCEPT !.header = header]
         IN  req' = IF a.ok
                    THEN Advance([r EXCEPT !.user = Jwt(a.sub)],
                                 "authenticateJWT")
                    ELSE Fail(r, "authenticateJWT",
                              WithCause(createError(401, "authenticateJWT"), Renamed(a.err)))
    /\ UNCHANGED <<users, issued, mail, pending, now, env, strictQuery, refreshTokens, minted, res>>

\* authenticatePasswordResetJWT of account-router.js
authenticatePasswordResetJWT ==
    /\ Stage = "authenticatePasswordResetJWT"
    /\ \E header \in Headers :
         LET a == IF header = NoHeader \/ header.scheme # "Bearer"
                  THEN bearer(header, Undefined)
                  ELSE IF process_env_process = Undefined
                  THEN [ok |-> FALSE, sub |-> 0, err |-> TypeError("process.env.process.env")]
                  ELSE bearer(header, ProcessEnv("PASSWORD_RESET_PUBLIC"))
             r == [req EXCEPT !.header = header]
         IN  req' = IF a.ok
                    THEN Advance([r EXCEPT !.user = Jwt(a.sub)],
                                 "authenticatePasswordResetJWT")
                    ELSE Fail(r, "authenticatePasswordResetJWT",
                              WithCause(createError(401, "authenticatePasswordResetJWT"),
                                        Renamed(a.err)))
    /\ UNCHANGED <<users, issued, mail, pending, now, env, strictQuery, refreshTokens, minted, res>>

\* authenticateJWT of users-router.js: populates req.admin
usersAuthenticateJWT ==
    /\ Stage = "usersAuthenticateJWT"
    /\ \E header \in Headers :
         LET a == bearer(header, ProcessEnv("ACCESS_TOKEN_PUB"))
             r == [req EXCEPT !.header = header]
         IN  req' = IF a.ok
                    THEN Advance([r EXCEPT !.admin = Jwt(a.sub)],
                                 "usersAuthenticateJWT")
                    ELSE Fail(r, "usersAuthenticateJWT",
                              WithCause(createError(401, "usersAuthenticateJWT"), a.err))
    /\ UNCHANGED <<users, issued, mail, pending, now, env, strictQuery, refreshTokens, minted, res>>

\* authorizeJWT of the users routes, version 1.0.0
authorizeJWT ==
    /\ Stage = "authorizeJWT"
    /\ \E header \in Headers :
         LET a == bearer(header, ProcessEnv("ACCESS_TOKEN_PUBLIC_KEY"))
             r == [req EXCEPT !.header = header]
         IN  req' = IF a.ok
                    THEN Advance([r EXCEPT !.user = Jwt(a.sub)],
                                 "authorizeJWT")
                    ELSE Fail(r, "authorizeJWT",
                              WithCause(createError(403, "authorizeJWT"), a.err))
    /\ UNCHANGED <<users, issued, mail, pending, now, env, strictQuery, refreshTokens, minted, res>>

\* authorizeUser without its comparison
authorizeUser_noCheck ==
    /\ Stage = "authorizeUser"
    /\ req' = Advance(req, "authorizeUser")
    /\ UNCHANGED <<users, issued, mail, pending, now, env, strictQuery, refreshTokens, minted, res>>

\* authorizeUser of account-router.js
authorizeUser ==
    /\ Stage = "authorizeUser"
    /\ req' = IF req.user.sub # req.id
              THEN Fail(req, "authorizeUser",
                        WithCause(createError(403, "authorizeUser"),
                                  NewError("Error", 0, "No right to access.", "authorizeUser")))
              ELSE Advance(req, "authorizeUser")
    /\ UNCHANGED <<users, issued, mail, pending, now, env, strictQuery, refreshTokens, minted, res>>

(***************************************************************************)
(* Request bodies the callers send, per controller method.                 *)
(***************************************************************************)
OptName == Usernames \cup {NoName}
OptPassword == Passwords \cup {Undefined}
OptEmail == Emails \cup {Undefined}

Bodies(name) ==
    CASE name = "register" ->
            { [EmptyBody EXCEPT !.username = u, !.email = e, !.password = p] :
                u \in OptName, e \in OptEmail, p \in OptPassword }
      [] name = "usersRegister" ->
            { [EmptyBody EXCEPT !.username = u, !.email = "al@example.org", !.password = p,
                                !.company = c, !.orgNo = "556000-0000"] :
                u \in OptName, p \in OptPassword, c \in {"Acme", Undefined} }
      [] name \in {"login", "loginVariant"} ->
            { [EmptyBody EXCEPT !.username = u, !.password = p] :
                u \in OptName, p \in OptPassword }
      [] name \in {"logout", "logoutVariant"} ->
            { [EmptyBody EXCEPT !.refreshToken = v] : v \in 0..MaxRefresh }
      [] name = "updatePassword" ->
            { [EmptyBody EXCEPT !.username = u, !.password = p, !.newPassword = n,
                                !.newPasswordConfirm = c] :
                u \in OptName, p \in OptPassword, n \in OptPassword, c \in OptPassword }
      [] name = "sendRestoreEmail" ->
            { [EmptyBody EXCEPT !.email = e] : e \in OptEmail }
      [] name = "resetPassword" ->
            { [EmptyBody EXCEPT !.newPassword = n] : n \in OptPassword }
      [] name = "usersResetPassword" ->
            { [EmptyBody EXCEPT !.customer = i, !.newPassword = n, !.newPasswordConfirm = c] :
                i \in ParamIds \cup {NoId}, n \in OptPassword, c \in OptPassword }
      [] OTHER -> { EmptyBody }

\* bodies of callers that know the accounts' credentials: enough to register,
\* to log in and to start a password change, one of them falling through
SessionBodies(name) ==
    CASE name = "register" ->
            { [EmptyBody EXCEPT !.username = u, !.email = "al@example.org",
                                !.password = "correcthorse"] : u \in {<<"a", "l">>, <<"b", "o">>} }
      [] name = "usersRegister" ->
            { [EmptyBody EXCEPT !.username = <<"b", "o">>, !.email = "al@example.org",
                                !.password = "correcthorse", !.company = "Acme",
                                !.orgNo = "556000-0000"] }
      [] name \in {"login", "loginVariant"} ->
            { [EmptyBody EXCEPT !.username = u, !.password = "correcthorse"] :
                u \in {<<"a", "l">>, <<"b", "o">>} }
      [] name \in {"logout", "logoutVariant"} ->
            { [EmptyBody EXCEPT !.refreshToken = v] : v \in 0..MaxRefresh }
      [] name = "updatePassword" ->
            { [EmptyBody EXCEPT !.username = <<"a", "l">>, !.password = "correcthorse",
                                !.newPassword = "batterystaple", !.newPasswordConfirm = c] :
                c \in {"batterystaple", Undefined} }
      [] name = "sendRestoreEmail" ->
            { [EmptyBody EXCEPT !.email = e] : e \in OptEmail }
      [] name = "resetPassword" ->
            { [EmptyBody EXCEPT !.newPassword = n] : n \in {"batterystaple", Undefined} }
      [] name = "usersResetPassword" ->
            { [EmptyBody EXCEPT !.customer = i, !.newPassword = "batterystaple",
                                !.newPasswordConfirm = "batterystaple"] : i \in 1..MaxUsers }
      [] OTHER -> { EmptyBody }

\* bodies of callers that change passwords: complete ones, and ones that
\* lack a field, disagree on the new password or name no account
PasswordBodies(name) ==
    CASE name = "sendRestoreEmail" ->
            { [EmptyBody EXCEPT !.email = e] : e \in {UnknownEmail, Undefined} }
      [] name = "updatePassword" ->
            { [EmptyBody EXCEPT !.username = u, !.password = "correcthorse",
                                !.newPassword = n, !.newPasswordConfirm = c] :
                u \in {<<"a", "l">>, NoName}, n \in {"batterystaple", "short", Undefined},
                c \in {"batterystaple", "short", Undefined} }
      [] name = "usersResetPassword" ->
            { [EmptyBody EXCEPT !.customer = i, !.newPassword = n, !.newPasswordConfirm = c] :
                i \in ParamIds \cup {NoId}, n \in {"batterystaple", Undefined},
                c \in {"batterystaple", "short"} }
      [] OTHER -> SessionBodies(name)

\* the controller method a route ends in, applied to the request
Handle(name, body, r) ==
    CASE name = "register" -> register(body)
      [] name = "usersRegister" -> usersRegister(body)
      [] name = "login" -> login(body)
      [] name = "loginVariant" -> loginVariant(body)
      [] name = "logout" -> logout(body)
      [] name = "logoutVariant" -> logoutVariant(body)
      [] name = "updatePassword" -> updatePassword(body)
      [] name = "sendRestoreEmail" -> sendRestoreEmail(body)
      [] name = "resetPassword" -> resetPassword(body, r.user)
      [] name = "usersResetPassword" -> usersResetPassword(body)
      [] OTHER -> find(r.user)

TokenCount(iss, ml) == Cardinality(iss \cup { m.token : m \in ml })

\* the bodies sent to each controller method: every body, and the session bodies
AllBodies == [name \in Controllers |-> Bodies(name)]
SessionOnly == [name \in Controllers |-> SessionBodies(name)]
PasswordChanges == [name \in Controllers |-> PasswordBodies(name)]

\* the route's controller method runs to its end
controller(sent) ==
    /\ Stage \in Controllers \ {"getAll"}
    /\ \E body \in sent[Stage] :
         LET out == Handle(Stage, body, req)
             first == out.outcomes[1]
         IN  /\ Len(out.users) <= MaxUsers
             /\ TokenCount(out.issued, out.mail) <= MaxTokens
             /\ Cardinality(out.pending) <= MaxPending
             /\ users' = out.users
             /\ issued' = out.issued
             /\ mail' = out.mail
             /\ pending' = out.pending
             /\ refreshTokens' = out.refreshTokens
             /\ req' = [req EXCEPT !.body = body, !.trail = Append(@, Stage),
                                   !.outcomes = out.outcomes,
                                   !.pc = IF first.t = "send" THEN "done" ELSE "error"]
             /\ res' = IF first.t = "send" THEN [status |-> first.status, body |-> first.body]
                       ELSE res
    /\ UNCHANGED <<now, env, strictQuery, minted>>

\* UsersController.getAll: the listing, or next(error) with the error of a
\* query the database rejected
getAll ==
    /\ Stage = "getAll"
    /\ \E page \in 1..MaxPage, limit \in 1..MaxLimit, settled \in {"resolves", "rejects"} :
         LET outs == IF settled = "rejects"
                     THEN <<NextErr(NewError("MongoServerSelectionError", 0,
                                             "connection refused", "User.find"))>>
                     ELSE <<Send(200, getAllResults(users, page, limit))>>
         IN  /\ req' = [req EXCEPT !.query = [page |-> page, limit |-> limit],
                                   !.trail = Append(@, "getAll"),
                                   !.outcomes = outs,
                                   !.pc = IF outs[1].t = "send" THEN "done" ELSE "error"]
             /\ res' = IF outs[1].t = "send"
                       THEN [status |-> outs[1].status, body |-> outs[1].body]
                       ELSE res
    /\ UNCHANGED <<users, issued, mail, pending, now, env, strictQuery, refreshTokens, minted>>

\* the first next(error) of the request reaches the error handler
errorHandler ==
    /\ req.pc = "error"
    /\ res' = errorResponse(req.outcomes[1].err, env)
    /\ req' = [req EXCEPT !.pc = "done", !.trail = Append(@, "errorHandler")]
    /\ UNCHANGED <<users, issued, mail, pending, now, env, strictQuery, refreshTokens, minted>>

\* a user.save() that was not awaited settles: validation, pre-save hook, update
saveSettles ==
    /\ \E s \in pending :
         /\ pending' = pending \ {s}
         /\ users' = IF PasswordValid(s.password)
                     THEN [users EXCEPT ![s.id] = preSave([@ EXCEPT !.password = s.password])]
                     ELSE users
    /\ UNCHANGED <<issued, mail, now, env, strictQuery, refreshTokens, minted, req, res>>

\* issueRefreshToken(account): a value never generated before is persisted
\* with the account's id
issueRefreshToken ==
    /\ minted < MaxRefresh
    /\ \E a \in 1..Len(users) :
          refreshTokens' = refreshTokens \cup {[token |-> minted + 1, accountId |-> a]}
    /\ minted' = minted + 1
    /\ UNCHANGED <<users, issued, mail, pending, now, env, strictQuery, req, res>>

\* time passes
Tick ==
    /\ now < MaxTime
    /\ now' = now + 1
    /\ UNCHANGED <<users, issued, mail, pending, env, strictQuery, refreshTokens, minted, req, res>>

Next ==
    \/ Receive(Routes)
    \/ loadUser
    \/ authenticateJWT
    \/ authenticatePasswordResetJWT
    \/ usersAuthenticateJWT
    \/ authorizeJWT
    \/ authorizeUser
    \/ controller(AllBodies)
    \/ getAll
    \/ errorHandler
    \/ saveSettles
    \/ issueRefreshToken
    \/ Tick

Spec == Init /\ [][Next]_vars

(***************************************************************************)
(* The routes of account-router.js that authenticate with an access token, *)
(* with the routes that create accounts and access tokens.                 *)
(***************************************************************************)
OwnerRoutes ==
    { "POST /register", "POST /login", "GET /user/:id", "PATCH /password/:id",
      "PATCH /password/update" }

NextOwner ==
    \/ Receive(OwnerRoutes)
    \/ loadUser
    \/ authenticateJWT
    \/ authorizeUser
    \/ controller(SessionOnly)
    \/ errorHandler
    \/ saveSettles
    \/ Tick

SpecOwner == Init /\ [][NextOwner]_vars

(***************************************************************************)
(* Every authentication middleware, with the routes that create accounts,  *)
(* access tokens and password-reset tokens.                                *)
(***************************************************************************)
TokenRoutes ==
    { "POST /register", "POST /login", "POST /password/restore", "PATCH /password/reset",
      "GET /user/:id", "GET /users/:id", "GET /users/:id (users routes 1.0.0)" }

NextTokens ==
    \/ Receive(TokenRoutes)
    \/ loadUser
    \/ authenticateJWT
    \/ authenticatePasswordResetJWT
    \/ usersAuthenticateJWT
    \/ authorizeJWT
    \/ authorizeUser
    \/ controller(SessionOnly)
    \/ errorHandler
    \/ Tick

SpecTokens == Init /\ [][NextTokens]_vars

(***************************************************************************)
(* Registration and login with every body a caller can send.               *)
(***************************************************************************)
AccountRoutes == { "POST /register", "POST /login", "POST /users/register" }

NextAccounts ==
    \/ Receive(AccountRoutes)
    \/ usersAuthenticateJWT
    \/ controller(AllBodies)
    \/ errorHandler

SpecAccounts == Init /\ [][NextAccounts]_vars

(***************************************************************************)
(* Every route that changes the password of an account, with the routes    *)
(* that create accounts, access tokens and password-reset tokens.          *)
(***************************************************************************)
PasswordRoutes ==
    { "POST /register", "POST /login", "PATCH /password/update", "PATCH /password/:id",
      "POST /password/restore", "PATCH /password/reset", "PATCH /users/password/reset" }

NextPasswords ==
    \/ Receive(PasswordRoutes)
    \/ loadUser
    \/ authenticateJWT
    \/ authenticatePasswordResetJWT
    \/ usersAuthenticateJWT
    \/ authorizeUser
    \/ controller(PasswordChanges)
    \/ errorHandler
    \/ saveSettles

SpecPasswords == Init /\ [][NextPasswords]_vars

(***************************************************************************)
(* Login and logout of AccountController 2.3.1, whose router is not among  *)
(* the sources: the controller method is the whole chain.                  *)
(***************************************************************************)
SessionRoutes ==
    { "POST /register", "POST /login", "POST /login (AccountController 2.3.1)",
      "POST /logout (AccountController 2.3.1)",
      "POST /logout (AccountController 2.3.1, no RefreshToken)" }

NextSessions ==
    \/ Receive(SessionRoutes)
    \/ controller(SessionOnly)
    \/ errorHandler
    \/ issueRefreshToken

SpecSessions == Init /\ [][NextSessions]_vars

(***************************************************************************)
(* The routes that read accounts, with the routes that create accounts and *)
(* access tokens.                                                          *)
(***************************************************************************)
UsersRoutes ==
    { "POST /register", "POST /login", "GET /users", "GET /users/:id", "GET /user/:id",
      "GET /users/:id (users routes 1.0.0)" }

NextUsers ==
    \/ Receive(UsersRoutes)
    \/ loadUser
    \/ authenticateJWT
    \/ usersAuthenticateJWT
    \/ authorizeJWT
    \/ authorizeUser
    \/ controller(SessionOnly)
    \/ getAll
    \/ errorHandler

SpecUsers == Init /\ [][NextUsers]_vars

(***************************************************************************)
(* What the trail of the request in flight says.                           *)
(***************************************************************************)
Ran(name) == \E i \in 1..Len(req.trail) : req.trail[i] = name

\* `name` ran and ended in next(error)
Failed(name) ==
    \E i \in 1..Len(req.trail) :
        /\ req.trail[i] = name
        /\ \/ i = Len(req.trail) /\ req.pc = "error"
           \/ i < Len(req.trail) /\ req.trail[i + 1] = "errorHandler"

\* `name` ran and called next()
Passed(name) == Ran(name) /\ ~Failed(name)

\* the route's controller method was invoked
ControllerRan == \E i \in 1..Len(req.trail) : req.trail[i] \in Controllers

(***************************************************************************)
(* C1.  Once authorizeUser has been evaluated, the request continues to    *)
(* the route's controller method if and only if the identity's sub equals  *)
(* the :id parameter; for every other pair the request ends in Forbidden   *)
(* (403) and the controller method is not invoked.                         *)
(***************************************************************************)
C1_AuthorizeOwner ==
    Ran("authorizeUser") =>
        IF req.user.sub = req.id
        THEN Passed("authorizeUser")
        ELSE /\ Failed("authorizeUser")
             /\ ~ControllerRan
             /\ req.outcomes[1].err.status = 403
             /\ (req.pc = "done" => res.status = 403)

C1_Witness ==
    /\ Failed("authorizeUser")
    /\ req.user.kind = "jwt"
    /\ req.user.sub # req.id
    /\ findById(users, req.id) # Null
    /\ res.status = 403

(***************************************************************************)
(* C2.  authorizeUser is evaluated only after authenticateJWT has          *)
(* succeeded in the same request, on the identity authenticateJWT derived  *)
(* from the verified token; a request whose authentication failed reaches  *)
(* neither authorizeUser nor the route's controller method.                *)
(***************************************************************************)
C2_AuthenticateBeforeAuthorize ==
    /\ \A i \in 1..Len(req.trail) :
          req.trail[i] = "authorizeUser" =>
              /\ \E j \in 1..(i - 1) : req.trail[j] = "authenticateJWT"
              /\ Passed("authenticateJWT")
              /\ req.header.scheme = "Bearer"
              /\ req.header.token \in issued
              /\ req.user = Jwt(req.header.token.sub)
    /\ Failed("authenticateJWT") => ~Ran("authorizeUser") /\ ~ControllerRan

C2_Witness ==
    /\ Ran("authorizeUser")
    /\ Passed("authenticateJWT")
    /\ req.user = Jwt(req.header.token.sub)
    /\ req.header.token \in issued

(***************************************************************************)
(* C3.  A successful login for account a issues an access token whose sub  *)
(* is a.id and whose expiry is the configured lifetime after issue.  Such  *)
(* a token, presented as Bearer to authenticateJWT before its expiry, is   *)
(* accepted and yields an identity with that sub; presented once the       *)
(* lifetime has elapsed it is rejected, and the response is 401.           *)
(***************************************************************************)
C3_LoginStep ==
    (Stage = "login" /\ req'.trail = Append(req.trail, "login") /\ res'.status = 200) =>
        LET t == res'.body.access_token
            a == findOneByUsername(users, toLowerCase(req'.body.username))
        IN  /\ a # Null
            /\ bcryptCompare(req'.body.password, a.password) = "true"
            /\ t.sub = a.id
            /\ t.iat = now
            /\ t.exp = now + ACCESS_TOKEN_LIFE
            /\ t \in issued'

C3_AuthenticateStep ==
    (/\ Stage = "authenticateJWT"
     /\ req'.trail = Append(req.trail, "authenticateJWT")
     /\ req'.header.scheme = "Bearer"
     /\ req'.header.token \in issued) =>
        LET t == req'.header.token
        IN  IF now < t.iat + ACCESS_TOKEN_LIFE
            THEN /\ req'.pc = "run"
                 /\ req'.user = Jwt(t.sub)
                 /\ findById(users, t.sub) # Null
            ELSE /\ req'.pc = "error"
                 /\ req'.outcomes[1].err.status = 401

\* C3: login issues a token for the account's id with the configured lifetime;
\* authenticateJWT accepts it before its expiry and answers 401 from then on.
C3_AccessTokenLifetime ==
    /\ [][C3_LoginStep /\ C3_AuthenticateStep]_vars
    /\ []((Failed("authenticateJWT") /\ req.pc = "done") => res.status = 401)

C3_Witness ==
    /\ Passed("authenticateJWT")
    /\ req.header.token \in issued
    /\ now < req.header.token.exp
    /\ req.user = Jwt(req.header.token.sub)

(***************************************************************************)
(* C4.  A token signed with the password-reset key is never accepted by a  *)
(* middleware that verifies access tokens, and a token signed with the     *)
(* access key is never accepted by authenticatePasswordResetJWT.           *)
(***************************************************************************)
AccessMiddlewares == { "authenticateJWT", "usersAuthenticateJWT", "authorizeJWT" }

\* C4: no access middleware passes a reset-key token, and
\* authenticatePasswordResetJWT passes no access-key token.
C4_CrossClassRejection ==
    /\ \A m \in AccessMiddlewares :
          Passed(m) => req.header.token.key # ProcessEnv("PASSWORD_RESET_PRIVATE")
    /\ Passed("authenticatePasswordResetJWT") =>
          req.header.token.key # ProcessEnv("ACCESS_TOKEN_SECRET")

C4_Witness ==
    /\ Failed("authenticateJWT")
    /\ req.header.scheme = "Bearer"
    /\ req.header.token \in { m.token : m \in mail }
    /\ req.header.token.key = ProcessEnv("PASSWORD_RESET_PRIVATE")
    /\ now < req.header.token.exp

(***************************************************************************)
(* C5.  An unexpired password-reset token minted by sendRestoreEmail for   *)
(* account a, presented as Bearer to PATCH /password/reset, is verified by *)
(* authenticatePasswordResetJWT, yields {sub: a.id}, and resetPassword     *)
(* then sets the password of account a and of no other account.            *)
(***************************************************************************)
C5_ResetTokenAccepted ==
    (/\ Ran("authenticatePasswordResetJWT")
     /\ req.header.scheme = "Bearer"
     /\ req.header.token \in { m.token : m \in mail }
     /\ now < req.header.token.exp) =>
        /\ Passed("authenticatePasswordResetJWT")
        /\ req.user = Jwt(req.header.token.sub)
        /\ Ran("resetPassword") => \A s \in pending : s.id = req.header.token.sub

(***************************************************************************)
(* C6.  Every authentication middleware ends a request that fails          *)
(* authentication (no Authorization header, a scheme other than Bearer, a  *)
(* token that does not verify) with Unauthorized (401), and the route's    *)
(* controller method is not invoked.                                       *)
(***************************************************************************)
AuthMiddlewares == AccessMiddlewares \cup { "authenticatePasswordResetJWT" }

\* C6: a middleware that fails authentication answers 401 and the controller
\* method does not run.
C6_UnauthorizedOnFailure ==
    \A m \in AuthMiddlewares :
        Failed(m) =>
            /\ req.outcomes[1].err.status = 401
            /\ ~ControllerRan
            /\ (req.pc = "done" => res.status = 401)

(***************************************************************************)
(* C7.  A login whose username matches an account but whose password is    *)
(* wrong, and a login whose username matches no account, get the same      *)
(* status; outside development mode they get the same response, status and *)
(* body.                                                                   *)
(***************************************************************************)
\* the response a login with `body` gets in the current state
LoginResponse(body) ==
    LET first == login(body).outcomes[1]
    IN  IF first.t = "send" THEN [status |-> first.status, body |-> first.body]
        ELSE errorResponse(first.err, env)

WrongPassword(body) ==
    /\ body.username # NoName
    /\ body.password # Undefined
    /\ LET user == findOneByUsername(users, toLowerCase(body.username))
       IN  user # Null /\ bcryptCompare(body.password, user.password) = "false"

UnknownUsername(body) ==
    /\ body.username # NoName
    /\ body.password # Undefined
    /\ findOneByUsername(users, toLowerCase(body.username)) = Null

LoginAnswered == req.pc = "done" /\ req.route = "POST /login"

C8_CaseInsensitiveLogin ==
    (/\ LoginAnswered
     /\ req.body.username # NoName
     /\ \E i \in 1..Len(users) :
           /\ toLowerCase(users[i].username) = toLowerCase(req.body.username)
           /\ users[i].password = bcryptHash(req.body.password, BcryptRounds)) =>
        res.status = 200

(***************************************************************************)
(* C9.  No two accounts have usernames that are equal ignoring letter      *)
(* case.                                                                   *)
(***************************************************************************)
C9_UniqueIgnoringCase ==
    \A i, j \in 1..Len(users) :
        i # j => toLowerCase(users[i].username) # toLowerCase(users[j].username)

(***************************************************************************)
(* C10.  A registration whose username is already registered (and whose    *)
(* body is otherwise valid) fails with Conflict (409); a registration      *)
(* whose body lacks password fails with 400; in both cases the collection  *)
(* of accounts is left as it was.                                          *)
(***************************************************************************)
\* the fields a register method requires besides username and password
OtherFieldsPresent(name, body) ==
    IF name = "register" THEN ~Falsy(body.email)
    ELSE ~Falsy(body.company) /\ ~Falsy(body.email) /\ ~Falsy(body.orgNo)

C10_RegisterStep ==
    (Stage \in {"register", "usersRegister"} /\ req'.trail = Append(req.trail, Stage)) =>
        LET body == req'.body
            first == req'.outcomes[1]
        IN  /\ Falsy(body.password) =>
                  users' = users /\ first.t = "next" /\ first.err.status = 400
            /\ (/\ DuplicateKey(users, body.username)
                /\ OtherFieldsPresent(Stage, body)
                /\ PasswordValid(body.password)) =>
                  users' = users /\ first.t = "next" /\ first.err.status = 409

C10_Answered ==
    (/\ req.pc = "done"
     /\ (Ran("register") \/ Ran("usersRegister"))
     /\ req.outcomes[1].t = "next") =>
        res.status = req.outcomes[1].err.status

\* C10: a duplicate username is answered 409 and a missing password 400, and
\* the collection is left as it was.
C10_RegisterFailures == [][C10_RegisterStep]_vars /\ []C10_Answered

C10_Witness ==
    /\ req.pc = "done"
    /\ Ran("register")
    /\ DuplicateKey(users, req.body.username)
    /\ res.status = 409

(***************************************************************************)
(* C11.  A stored password is overwritten only by a save that a controller *)
(* method started, and a controller method starts a save for an account    *)
(* only when the caller presented that account's current password, or a    *)
(* verified token (access or password-reset) whose sub is that account's   *)
(* id.                                                                     *)
(***************************************************************************)
C11_PasswordChangeStep ==
    /\ \A s \in pending' \ pending :
          \/ bcryptCompare(req'.body.password, findById(users, s.id).password) = "true"
          \/ req.user.kind = "jwt" /\ req.user.sub = s.id
          \/ req.admin.kind = "jwt" /\ req.admin.sub = s.id
    /\ \A i \in 1..Len(users) :
          users'[i].password # users[i].password => \E s \in pending : s.id = i

\* C11: no caller changes the password of an account they do not own.
C11_OwnPasswordOnly == [][C11_PasswordChangeStep]_vars

(***************************************************************************)
(* C12.  On every route that returns the account identified by :id, the    *)
(* response carries that account's data only when the verified token's sub *)
(* equals :id, and a request whose verified token has another sub is       *)
(* answered Forbidden (403).                                               *)
(***************************************************************************)
\* a middleware verified the bearer token of the request
TokenVerified == \E m \in AccessMiddlewares : Passed(m)

C12_ProfileOwnerOnly ==
    (req.pc = "done" /\ HasIdParam(req.route) /\ Chain(req.route)[Len(Chain(req.route))] = "find") =>
        /\ res.body = toJSON(findById(users, req.id)) =>
              TokenVerified /\ req.header.token.sub = req.id
        /\ (TokenVerified /\ req.header.token.sub # req.id) => res.status = 403

(***************************************************************************)
(* C13.  A logout with a stored refresh-token value answers 204 and        *)
(* deletes its record; a logout with a value that has no record (a second  *)
(* logout with the same value) answers NotFound (404) and changes nothing; *)
(* a value that was generated and is no longer stored is never stored      *)
(* again.                                                                  *)
(***************************************************************************)
Stored(store, v) == \E r \in store : r.token = v

C13_LogoutStep ==
    (/\ Stage \in {"logout", "logoutVariant"}
     /\ req'.trail = Append(req.trail, Stage)
     /\ req'.body.refreshToken # NoValue) =>
        LET v == req'.body.refreshToken
            first == req'.outcomes[1]
        IN  IF Stored(refreshTokens, v)
            THEN first.t = "send" /\ first.status = 204 /\ ~Stored(refreshTokens', v)
            ELSE first.t = "next" /\ first.err.status = 404 /\ refreshTokens' = refreshTokens

C13_RevokedStep ==
    \A v \in 1..minted : ~Stored(refreshTokens, v) => ~Stored(refreshTokens', v)

\* C13: revoking a refresh token twice is safe: 204 and deletion, then NotFound,
\* and the value never returns to the store.
C13_RevokeTwice == [][C13_LogoutStep /\ C13_RevokedStep]_vars

(***************************************************************************)
(* C14.  Every successful login persists a new refresh-token record owned  *)
(* by the authenticated account and returns its value in the response.     *)
(***************************************************************************)
C14_LoginStep ==
    (/\ Stage \in {"login", "loginVariant"}
     /\ req'.trail = Append(req.trail, Stage)
     /\ res'.status = 200) =>
        /\ "refresh_token" \in DOMAIN res'.body
        /\ \E r \in refreshTokens' \ refreshTokens :
              /\ r.accountId = res'.body.access_token.sub
              /\ r.token = res'.body.refresh_token

\* C14: a successful login creates a refresh-token record and returns its value.
C14_LoginIssuesRefreshToken == [][C14_LoginStep]_vars

(***************************************************************************)
(* C15.  For page >= 1 and limit >= 1 and every number of matching         *)
(* accounts, the listing has totalPages = ceil(total / limit) with a floor *)
(* of 1, next present iff offset + limit < total, and previous present iff *)
(* page > 1, where offset = (page - 1) * limit; next and previous name the *)
(* pages page + 1 and page - 1.                                            *)
(***************************************************************************)
C15_ReferencePagination ==
    (req.pc = "done" /\ Ran("getAll") /\ res.status = 200) =>
        LET page == req.query.page
            limit == req.query.limit
            total == Len(findNotAdmin(users))
            offset == (page - 1) * limit
        IN  /\ res.body.pages = (IF total = 0 THEN 1 ELSE Ceil(total, limit))
            /\ res.body.next.present <=> (offset + limit < total)
            /\ res.body.next.present => res.body.next.page = page + 1
            /\ res.body.previous.present <=> (page > 1)
            /\ res.body.previous.present => res.body.previous.page = page - 1
            /\ Len(res.body.users) <= limit

(***************************************************************************)
(* C16.  No response body carries an account's password field: not a       *)
(* success response in any mode, and not an error response outside         *)
(* development mode.                                                       *)
(***************************************************************************)
NoPasswordField(body) ==
    /\ "password" \notin DOMAIN body
    /\ body.type = "list" => \A i \in 1..Len(body.users) : "password" \notin DOMAIN body.users[i]

C16_NoPasswordOutward ==
    (res.status \in 200..299 \/ env # "development") => NoPasswordField(res.body)

C16_Witness ==
    /\ req.pc = "done"
    /\ Ran("find")
    /\ res.status = 200
    /\ res.body.type = "user"
    /\ findById(users, res.body.id).password = bcryptHash("correcthorse", BcryptRounds)

(***************************************************************************)
(* C17.  Outside development mode the error handler's response holds the   *)
(* status and a message and nothing else: no stack and no cause.  The      *)
(* status is the error's, and an error without a status is answered 500    *)
(* with the generic message, not its own.                                  *)
(***************************************************************************)
C17_StatusAndMessageOnly ==
    (req.pc = "done" /\ Ran("errorHandler") /\ env # "development") =>
        LET err == req.outcomes[1].err
        IN  /\ DOMAIN res.body = {"type", "status", "message"}
            /\ res.body.status = res.status
            /\ res.body.message \notin {err.stack, err.cause.message, err.cause.stack}
            /\ err.status # 0 => res.status = err.status
            /\ err.status = 0 =>
                  /\ res.status = 500
                  /\ res.body.message = "An unexpected condition was encountered."
                  /\ res.body.message # err.message

C17_Witness ==
    /\ req.pc = "done"
    /\ Ran("errorHandler")
    /\ env = "production"
    /\ req.outcomes[1].err.status = 0
    /\ res.status = 500

(***************************************************************************)
(* C18.  When updatePassword or resetPassword meets a validation failure   *)
(* (a required field missing, newPassword different from                   *)
(* newPasswordConfirm, or no target account), it calls next(error) and     *)
(* goes no further: no save of a password is started, no account changes   *)
(* and no 204 is sent.                                                     *)
(***************************************************************************)
ValidationFails(name, body, identity) ==
    CASE name = "updatePassword" ->
            \/ FalsyName(body.username) \/ Falsy(body.password)
            \/ Falsy(body.newPassword) \/ Falsy(body.newPasswordConfirm)
            \/ body.newPassword # body.newPasswordConfirm
      [] name = "resetPassword" ->
            Falsy(body.newPassword) \/ findById(users, identity.sub) = Null
      [] name = "usersResetPassword" ->
            \/ body.customer = NoId
            \/ Falsy(body.newPassword) \/ Falsy(body.newPasswordConfirm)
            \/ body.newPassword # body.newPasswordConfirm
            \/ findById(users, body.customer) = Null
      [] OTHER -> FALSE

C18_FailureStep ==
    (/\ Stage \in {"updatePassword", "resetPassword", "usersResetPassword"}
     /\ req'.trail = Append(req.trail, Stage)
     /\ ValidationFails(Stage, req'.body, req.user)) =>
        /\ req'.outcomes[1].t = "next"
        /\ \A k \in 1..Len(req'.outcomes) : req'.outcomes[k].t # "send"
        /\ pending' = pending
        /\ users' = users

\* C18: a validation failure of updatePassword / resetPassword is terminal and
\* leaves every stored password as it was.
C18_FailuresAreTerminal == [][C18_FailureStep]_vars

(***************************************************************************)
(* C19.  sendRestoreEmail sends a mail only to the requested address, only *)
(* when an account stores that address as its email, and the token in the  *)
(* mail is a password-reset token whose sub is that account's id; when the *)
(* email is missing or no account stores it, the operation ends with 400   *)
(* or 404 and sends no mail.                                               *)
(***************************************************************************)
C19_RestoreStep ==
    (Stage = "sendRestoreEmail" /\ req'.trail = Append(req.trail, "sendRestoreEmail")) =>
        LET email == req'.body.email
            known == { i \in 1..Len(users) : storedEmail(users[i]) = email }
        IN  /\ \A m \in mail' \ mail :
                  /\ m.to = email
                  /\ m.token.key = ProcessEnv("PASSWORD_RESET_PRIVATE")
                  /\ m.token.sub \in known
            /\ (Falsy(email) \/ known = {}) =>
                  /\ mail' = mail
                  /\ req'.outcomes[1].t = "next"
                  /\ req'.outcomes[1].err.status \in {400, 404}

\* C19: a reset token is mailed only for an account that stores the requested
\* email; otherwise 400/404 and no mail.
C19_RestoreOnlyKnownEmail == [][C19_RestoreStep]_vars

(***************************************************************************)
(* C20.  A request that reached a controller method has exactly one        *)
(* terminal outcome: one response sent, or one next(error).                *)
(***************************************************************************)
C20_OneOutcome == ControllerRan => Len(req.outcomes) = 1

(***************************************************************************)
(* C21.  Once updatePassword or resetPassword has answered 204, the        *)
(* account's stored password is the hash of newPassword: a login with      *)
(* newPassword succeeds and a login with the old password fails, at every  *)
(* moment after the response.                                              *)
(***************************************************************************)
\* the account whose password the answered request set
Target ==
    CASE Ran("updatePassword") -> findOneByUsername(users, toLowerCase(req.body.username))
      [] Ran("usersResetPassword") -> findById(users, req.body.customer)
      [] OTHER -> findById(users, req.user.sub)

C21_ChangeHasTakenEffect ==
    (/\ req.pc = "done"
     /\ res.status = 204
     /\ Ran("updatePassword") \/ Ran("resetPassword") \/ Ran("usersResetPassword")) =>
        /\ bcryptCompare(req.body.newPassword, Target.password) = "true"
        /\ Ran("updatePassword") /\ req.body.password # req.body.newPassword =>
              bcryptCompare(req.body.password, Target.password) # "true"

(***************************************************************************)
(* C22.  A request to GET /user/:id or PATCH /password/:id that does not   *)
(* pass authentication is answered 401, whether or not an account has the  *)
(* id: the 404 of loadUser is never the answer to such a request.          *)
(***************************************************************************)
C22_UnauthorizedWhateverTheId ==
    (/\ req.pc = "done"
     /\ req.route \in {"GET /user/:id", "PATCH /password/:id"}
     /\ ~Passed("authenticateJWT")) =>
        res.status = 401

====
